---------------------------- MODULE Spec2Model ----------------------------
(***************************************************************************)
(* bpnet: the resumable report pipeline modisco_report_all                 *)
(* (bpnet/cli/modisco.py) with its ConditionalRun step tracker, and the    *)
(* SWAG accumulator SWAGCallback (bpnet/swag_callback.py).                 *)
(*                                                                         *)
(* Independent state machines share the module: SpecReport drives the     *)
(* report pipeline, SpecSwag drives the callback, SpecRun drives the       *)
(* command bpnet_modisco_run.                                              *)
(***************************************************************************)
EXTENDS Integers, Sequences, FiniteSets, TLC

VARIABLES
    \* ---- report pipeline ----
    markers,      \* the .done files present in {modisco_dir}/.modisco_report_all/
    npatterns,    \* len(mr.patterns()) of the modisco.h5 in modisco_dir
    pc,           \* position of modisco_report_all: idle/step/work/write/returned/raised
    force,        \* argument force of the running invocation
    scan,         \* argument scan_instances of the running invocation
    idx,          \* index of the current step in Pipeline(scan)
    cmd,          \* cr.cmd, the step the tracker has selected
    contribsf,    \* the shared ContribFile: "loaded" or "None"
    touched,      \* results.html / scored_regions.bed touched by the no-pattern path
    entry,        \* history: markers at entry of the running invocation
    executed,     \* history: steps whose work function was called, in call order
    written,      \* history: markers cr.write() created or re-created in this invocation
    failed,       \* history: the step whose work raised in this invocation, or NoStep
    prevFailed,   \* history: `failed` of the previous invocation
    prevScan,     \* history: `scan` of the previous invocation
    prevForce,    \* history: `force` of the previous invocation
    \* ---- SWAG callback ----
    start,        \* self.start
    rank,         \* self.rank
    mean,         \* self.mean
    moments,      \* self.moments
    cols,         \* self.cols
    files,        \* the three output files: Absent or Holding(parsed content)
    te,           \* position of on_train_end: none/diag/cols/done/raised
    err,          \* the exception that left on_train_end, or "none"
    lastEpoch,    \* history: epoch argument of the last on_epoch_end call, -1 before
    ncalls,       \* history: number of on_epoch_end calls so far
    snaps,        \* history: the snapshots seen by accumulating calls, in order
    appended,     \* history: every deviation snapshot appended to self.cols, in order
    \* ---- bpnet_modisco_run ----
    rpc,          \* position of bpnet_modisco_run: idle/tasks/subset/expand/workflow/report/done/raised
    wc,           \* the tasks of contrib_wildcard.split(","), one per wildcard
    hasConfig,    \* argument config is not None
    reportCfg,    \* gin parameter report of modisco_run: "None", "exists" or "missing"
    outs,         \* the output files the command has written so far
    workflowRan,  \* the pattern-discovery workflow has been called
    task,         \* the local variable `task`
    task_names,   \* the local list task_names, keys <<task, index of the wildcard>>
    runErr        \* the exception that left the command, or "none"

reportVars == <<markers, npatterns, pc, force, scan, idx, cmd, contribsf, touched,
                entry, executed, written, failed, prevFailed, prevScan, prevForce>>
swagVars == <<start, rank, mean, moments, cols, files, te, err, lastEpoch, ncalls,
              snaps, appended>>
runVars == <<rpc, wc, hasConfig, reportCfg, outs, workflowRan, task, task_names, runErr>>
vars == <<reportVars, swagVars, runVars>>

-----------------------------------------------------------------------------
(* Bounds *)

MaxPatterns == 1
MaxEpoch == 4
MaxStart == 2
MaxRank == 2
MaxWildcards == 2

\* The parameter snapshots model.get_weights() may return: one integer per tensor.
Weights == { <<1>>, <<3>>, <<5>>, <<1, -2>>, <<3, 5>> }

-----------------------------------------------------------------------------
(* The report pipeline: modisco_report_all *)

NoStep == "none"

\* The sequence of gated blocks of modisco_report_all, in source order.
StepOrder ==
    << "modisco_plot", "modisco_report", "modisco_table",
       "modisco_cluster_patterns", "modisco_enrich_patterns",
       "modisco_centroid_seqlet_matches", "cwm_scan", "modisco2bed" >>

AllSteps == { StepOrder[i] : i \in 1..Len(StepOrder) }

\* The two blocks nested under `if scan_instances:`.
ScanOnly == { "modisco_centroid_seqlet_matches", "cwm_scan" }

\* Mutation: the `if scan_instances:` guard is lost.
PipelineUnguarded(s) == StepOrder

\* The blocks one invocation walks through, given scan_instances.
Pipeline(s) ==
    LET keep(x) == s \/ x \notin ScanOnly
    IN  SelectSeq(StepOrder, keep)

\* Mutation: force is not handed to the tracker.
ForceDropped(f) == FALSE

\* cr = ConditionalRun("modisco_report_all", None, modisco_dir, force=force)
TrackerForce(f) == f

\* ConditionalRun.done() for the step c: the marker exists and force is off.
done(c, m, f) == c \in m /\ ~TrackerForce(f)

\* ConditionalRun.write() for the selected step c: the marker is created
\* (a no-op when it is already there).
write(c, m) == m \cup {c}

\* The three set_cmd(...).done() calls of the load condition, short-circuited
\* by `or`: the step the tracker is left selecting.
LoadCondCmd(m, f) ==
    IF ~done("modisco_plot", m, f) THEN "modisco_plot"
    ELSE IF ~done("modisco_cluster_patterns", m, f) THEN "modisco_cluster_patterns"
    ELSE "modisco_enrich_patterns"

\* The condition under which the shared ContribFile is loaded up front.
LoadCond(m, f) ==
    \/ ~done("modisco_plot", m, f)
    \/ ~done("modisco_cluster_patterns", m, f)
    \/ ~done("modisco_enrich_patterns", m, f)

InitReportVars ==
    /\ markers \in SUBSET AllSteps
    /\ npatterns \in 0..MaxPatterns
    /\ pc = "idle"
    /\ force = FALSE
    /\ scan = FALSE
    /\ idx = 0
    /\ cmd = NoStep
    /\ contribsf = "None"
    /\ touched = FALSE
    /\ entry = {}
    /\ executed = << >>
    /\ written = {}
    /\ failed = NoStep
    /\ prevFailed = NoStep
    /\ prevScan = FALSE
    /\ prevForce = FALSE

\* A call modisco_report_all(modisco_dir, scan_instances=s, force=f): everything
\* up to the first gated block.
Invoke(f, s) ==
    /\ pc \in {"idle", "returned", "raised"}
    /\ force' = f
    /\ scan' = s
    /\ entry' = markers
    /\ executed' = << >>
    /\ written' = {}
    /\ failed' = NoStep
    /\ prevFailed' = failed
    /\ prevScan' = scan
    /\ prevForce' = force
    /\ idx' = 1
    /\ IF npatterns = 0
       THEN /\ touched' = TRUE
            /\ pc' = "returned"
            /\ cmd' = NoStep
            /\ contribsf' = "None"
       ELSE /\ touched' = touched
            /\ pc' = "step"
            /\ cmd' = LoadCondCmd(markers, f)
            /\ contribsf' = IF LoadCond(markers, f) THEN "loaded" ELSE "None"
    /\ UNCHANGED <<markers, npatterns>>
    /\ UNCHANGED swagVars
    /\ UNCHANGED runVars

\* `if not cr.set_cmd(step).done():` with the marker present: the block is skipped.
StepSkip ==
    /\ pc = "step"
    /\ idx <= Len(Pipeline(scan))
    /\ done(Pipeline(scan)[idx], markers, force)
    /\ cmd' = Pipeline(scan)[idx]
    /\ idx' = idx + 1
    /\ UNCHANGED <<markers, npatterns, pc, force, scan, contribsf, touched, entry,
                   executed, written, failed, prevFailed, prevScan, prevForce>>
    /\ UNCHANGED swagVars
    /\ UNCHANGED runVars

\* Mutation: the block tests and marks whatever step the tracker still selects
\* (set_cmd is not called for the block).
StepBeginNoSelect ==
    /\ pc = "step"
    /\ idx <= Len(Pipeline(scan))
    /\ ~done(Pipeline(scan)[idx], markers, force)
    /\ executed' = Append(executed, Pipeline(scan)[idx])
    /\ pc' = "work"
    /\ UNCHANGED <<markers, npatterns, force, scan, idx, cmd, contribsf, touched, entry,
                   written, failed, prevFailed, prevScan, prevForce>>
    /\ UNCHANGED swagVars
    /\ UNCHANGED runVars

\* `if not cr.set_cmd(step).done():` with done() false: the step's function is called.
StepBegin ==
    /\ pc = "step"
    /\ idx <= Len(Pipeline(scan))
    /\ ~done(Pipeline(scan)[idx], markers, force)
    /\ cmd' = Pipeline(scan)[idx]
    /\ executed' = Append(executed, Pipeline(scan)[idx])
    /\ pc' = "work"
    /\ UNCHANGED <<markers, npatterns, force, scan, idx, contribsf, touched, entry,
                   written, failed, prevFailed, prevScan, prevForce>>
    /\ UNCHANGED swagVars
    /\ UNCHANGED runVars

\* The step's function returns.
WorkOk ==
    /\ pc = "work"
    /\ pc' = "write"
    /\ UNCHANGED <<markers, npatterns, force, scan, idx, cmd, contribsf, touched, entry,
                   executed, written, failed, prevFailed, prevScan, prevForce>>
    /\ UNCHANGED swagVars
    /\ UNCHANGED runVars

\* The step's function raises: nothing catches it, modisco_report_all is left.
WorkFail ==
    /\ pc = "work"
    /\ pc' = "raised"
    /\ failed' = Pipeline(scan)[idx]
    /\ UNCHANGED <<markers, npatterns, force, scan, idx, cmd, contribsf, touched, entry,
                   executed, written, prevFailed, prevScan, prevForce>>
    /\ UNCHANGED swagVars
    /\ UNCHANGED runVars

\* cr.write() after the step's function returned.
Write ==
    /\ pc = "write"
    /\ markers' = write(cmd, markers)
    /\ written' = written \cup {cmd}
    /\ idx' = idx + 1
    /\ pc' = "step"
    /\ UNCHANGED <<npatterns, force, scan, cmd, contribsf, touched, entry,
                   executed, failed, prevFailed, prevScan, prevForce>>
    /\ UNCHANGED swagVars
    /\ UNCHANGED runVars

\* cr.write() cannot create the marker (directory not writable): the
\* failure leaves modisco_report_all.
WriteFail ==
    /\ pc = "write"
    /\ cmd \notin markers
    /\ pc' = "raised"
    /\ UNCHANGED <<markers, npatterns, force, scan, idx, cmd, contribsf, touched, entry,
                   executed, written, failed, prevFailed, prevScan, prevForce>>
    /\ UNCHANGED swagVars
    /\ UNCHANGED runVars

\* The last block is passed: the rsync hint is printed and the function returns.
Return ==
    /\ pc = "step"
    /\ idx > Len(Pipeline(scan))
    /\ pc' = "returned"
    /\ UNCHANGED <<markers, npatterns, force, scan, idx, cmd, contribsf, touched, entry,
                   executed, written, failed, prevFailed, prevScan, prevForce>>
    /\ UNCHANGED swagVars
    /\ UNCHANGED runVars

NextReport ==
    \/ \E f \in BOOLEAN, s \in BOOLEAN : Invoke(f, s)
    \/ StepSkip
    \/ StepBegin
    \/ WorkOk
    \/ WorkFail
    \/ Write
    \/ WriteFail
    \/ Return

-----------------------------------------------------------------------------
(* Exact arithmetic on the entries of mean, moments and cols.  An entry is  *)
(* a record [t, n, d]: the rational n/d in lowest terms (d > 0), and t the  *)
(* Python type that holds it, "float" (the 0. of __init__) or "ndarray".    *)

Abs(x) == IF x < 0 THEN -x ELSE x

RECURSIVE GCD(_, _)
GCD(a, b) == IF b = 0 THEN a ELSE GCD(b, a % b)

Num(n, d, t) ==
    LET g == GCD(Abs(n), d)
    IN  [t |-> t, n |-> n \div g, d |-> d \div g]

\* Arithmetic between a float and an ndarray gives an ndarray.
Kind(a, b) == IF "ndarray" \in {a.t, b.t} THEN "ndarray" ELSE "float"

NAdd(a, b) == Num(a.n * b.d + b.n * a.d, a.d * b.d, Kind(a, b))
NSub(a, b) == Num(a.n * b.d - b.n * a.d, a.d * b.d, Kind(a, b))
NMul(a, b) == Num(a.n * b.n, a.d * b.d, Kind(a, b))
\* k * a and a / k for a Python int k (k > 0 in the division)
NScale(k, a) == Num(k * a.n, a.d, a.t)
NDiv(a, k) == Num(a.n, a.d * k, a.t)

Float0 == [t |-> "float", n |-> 0, d |-> 1]
Array(v) == [t |-> "ndarray", n |-> v, d |-> 1]

Min(a, b) == IF a < b THEN a ELSE b

-----------------------------------------------------------------------------
(* The SWAG callback: SWAGCallback *)

\* self.mean = 2000*[0.] and self.moments = 2000*[0.]
InitSlots == 2000

\* A file's state: absent, or the JSON value it holds.
Absent == << >>
Holding(json) == << json >>

\* model.get_weights() for the snapshot w: a list of ndarrays
get_weights(w) == [i \in 1..Len(w) |-> Array(w[i])]

\* Mutation: the previous mean is weighted by n + 1 instead of n.
MeanEntryOverweight(epoch, st, prev, curr) ==
    NDiv(NAdd(NScale(epoch - st + 1, prev), curr), epoch - st + 1)

\* ((epoch-self.start)*prev + curr)/(epoch-self.start+1)
MeanEntry(epoch, st, prev, curr) ==
    NDiv(NAdd(NScale(epoch - st, prev), curr), epoch - st + 1)

\* Mutation: the second moment accumulates curr instead of curr**2.
MomentEntryUnsquared(epoch, st, prev, curr) ==
    NDiv(NAdd(NScale(epoch - st, prev), curr), epoch - st + 1)

\* ((epoch-self.start)*prev + curr**2)/(epoch-self.start+1)
MomentEntry(epoch, st, prev, curr) ==
    NDiv(NAdd(NScale(epoch - st, prev), NMul(curr, curr)), epoch - st + 1)

\* The list comprehensions over zip(...): zip stops at the shorter list.
NewMean(epoch, st, m, w) ==
    [i \in 1..Min(Len(m), Len(w)) |-> MeanEntry(epoch, st, m[i], w[i])]

\* zip(self.moments, self.mean, weights) with self.mean already updated
NewMoments(epoch, st, mo, m1, w) ==
    [i \in 1..Min(Len(mo), Min(Len(m1), Len(w))) |-> MomentEntry(epoch, st, mo[i], w[i])]

\* Mutation: the column is centred on the mean the call started with.
DeviationStale(m1, w) ==
    [i \in 1..Min(Len(mean), Len(w)) |-> NSub(w[i], mean[i])]

\* [(curr-mean) for mean, curr in zip(self.mean, weights)], self.mean already updated
Deviation(m1, w) ==
    [i \in 1..Min(Len(m1), Len(w)) |-> NSub(w[i], m1[i])]

\* Mutation: the accumulation starts one epoch early.
AccumulatesEarly(epoch, st) == epoch >= st - 1

\* if epoch >= self.start:
Accumulates(epoch, st) == epoch >= st

\* Mutation: the newest column is dropped instead of the oldest.
TrimNewest(c, r) == IF Len(c) > r THEN SubSeq(c, 1, Len(c) - 1) ELSE c

\* if len(self.cols) > self.rank: self.cols = self.cols[1:]
Trim(c, r) == IF Len(c) > r THEN Tail(c) ELSE c

\* p.tolist(): only an ndarray has it; the value as plain JSON number
HasTolist(p) == p.t = "ndarray"
AllHaveTolist(m) == { i \in 1..Len(m) : ~HasTolist(m[i]) } = {}
tolist(p) == [n |-> p.n, d |-> p.d]

\* diag = [moment - mean**2 for moment, mean in zip(self.moments, self.mean)]
Diag(mo, m) ==
    [i \in 1..Min(Len(mo), Len(m)) |-> NSub(mo[i], NMul(m[i], m[i]))]

MeanJson(m) == [i \in 1..Len(m) |-> tolist(m[i])]
ColsJson(c) == [k \in 1..Len(c) |-> [i \in 1..Len(c[k]) |-> tolist(c[k][i])]]

InitSwagVars ==
    /\ start \in 0..MaxStart
    /\ rank \in 0..MaxRank
    /\ mean = [i \in 1..InitSlots |-> Float0]
    /\ moments = [i \in 1..InitSlots |-> Float0]
    /\ cols = << >>
    /\ files = [mean |-> Absent, diag |-> Absent, cols |-> Absent]
    /\ te = "none"
    /\ err = "none"
    /\ lastEpoch = -1
    /\ ncalls = 0
    /\ snaps = << >>
    /\ appended = << >>

\* on_epoch_end(epoch) while model.get_weights() returns the snapshot w
on_epoch_end(epoch, w) ==
    /\ te = "none"
    /\ epoch > lastEpoch
    /\ epoch <= MaxEpoch
    /\ snaps # << >> => Len(w) = Len(snaps[1])
    /\ LET acc == Accumulates(epoch, start)
           gw == get_weights(w)
           m1 == IF acc THEN NewMean(epoch, start, mean, gw) ELSE mean
           mo1 == IF acc THEN NewMoments(epoch, start, moments, m1, gw) ELSE moments
           dev == Deviation(m1, gw)
           c1 == IF acc THEN Append(cols, dev) ELSE cols
       IN  /\ mean' = m1
           /\ moments' = mo1
           /\ cols' = Trim(c1, rank)
           /\ snaps' = IF acc THEN Append(snaps, w) ELSE snaps
           /\ appended' = IF acc THEN Append(appended, dev) ELSE appended
    /\ lastEpoch' = epoch
    /\ ncalls' = ncalls + 1
    /\ UNCHANGED <<start, rank, files, te, err>>
    /\ UNCHANGED reportVars
    /\ UNCHANGED runVars

\* on_train_end, line 31, when an entry of self.mean is still the float of
\* __init__: p.tolist() raises before the file is opened.
DumpMeanNoTolist ==
    /\ te = "none"
    /\ ~AllHaveTolist(mean)
    /\ te' = "raised"
    /\ err' = "AttributeError"
    /\ UNCHANGED <<start, rank, mean, moments, cols, files, lastEpoch, ncalls, snaps, appended>>
    /\ UNCHANGED reportVars
    /\ UNCHANGED runVars

\* on_train_end, line 31: <output_prefix>_mean.json is written.
DumpMean ==
    /\ te = "none"
    /\ AllHaveTolist(mean)
    /\ files' = [files EXCEPT !.mean = Holding(MeanJson(mean))]
    /\ te' = "diag"
    /\ UNCHANGED <<start, rank, mean, moments, cols, err, lastEpoch, ncalls, snaps, appended>>
    /\ UNCHANGED reportVars
    /\ UNCHANGED runVars

\* on_train_end, lines 32-33: <output_prefix>_diag.json is written.
DumpDiag ==
    /\ te = "diag"
    /\ files' = [files EXCEPT !.diag = Holding(MeanJson(Diag(moments, mean)))]
    /\ te' = "cols"
    /\ UNCHANGED <<start, rank, mean, moments, cols, err, lastEpoch, ncalls, snaps, appended>>
    /\ UNCHANGED reportVars
    /\ UNCHANGED runVars

\* on_train_end, line 34: <output_prefix>_cols.json is written; the hook returns.
DumpCols ==
    /\ te = "cols"
    /\ files' = [files EXCEPT !.cols = Holding(ColsJson(cols))]
    /\ te' = "done"
    /\ UNCHANGED <<start, rank, mean, moments, cols, err, lastEpoch, ncalls, snaps, appended>>
    /\ UNCHANGED reportVars
    /\ UNCHANGED runVars

\* One of the three open(..., 'w+') calls fails: the exception leaves
\* on_train_end, the files written before it stay.
DumpOpenFails ==
    /\ te \in {"none", "diag", "cols"}
    /\ te = "none" => AllHaveTolist(mean)
    /\ te' = "raised"
    /\ err' = "IOFailure"
    /\ UNCHANGED <<start, rank, mean, moments, cols, files, lastEpoch, ncalls, snaps, appended>>
    /\ UNCHANGED reportVars
    /\ UNCHANGED runVars

NextSwag ==
    \/ \E e \in 0..MaxEpoch, w \in Weights : on_epoch_end(e, w)
    \/ DumpMeanNoTolist
    \/ DumpMean
    \/ DumpDiag
    \/ DumpCols
    \/ DumpOpenFails

\* The snapshot of a model with more tensors than the 2000 slots of __init__.
LongWeights == { [i \in 1..(InitSlots + 1) |-> 3] }

\* The callback attached to such a model.
NextSwagLong ==
    \/ \E e \in 0..MaxEpoch, w \in LongWeights : on_epoch_end(e, w)
    \/ DumpMeanNoTolist
    \/ DumpMean
    \/ DumpDiag
    \/ DumpCols
    \/ DumpOpenFails

\* on_epoch_end(epoch) with epoch >= start in which the statement of line `at`
\* raises (get_weights() or the array arithmetic): the assignments of the lines
\* before it have been made, the exception leaves the hook and ends training.
on_epoch_end_raises(epoch, w, at) ==
    /\ te = "none"
    /\ epoch > lastEpoch
    /\ epoch <= MaxEpoch
    /\ snaps # << >> => Len(w) = Len(snaps[1])
    /\ Accumulates(epoch, start)
    /\ LET gw == get_weights(w)
           m1 == NewMean(epoch, start, mean, gw)
           mo1 == NewMoments(epoch, start, moments, m1, gw)
       IN  /\ mean' = IF at >= 25 THEN m1 ELSE mean
           /\ moments' = IF at >= 26 THEN mo1 ELSE moments
    /\ te' = "aborted"
    /\ err' = "EpochFailure"
    /\ lastEpoch' = epoch
    /\ ncalls' = ncalls + 1
    /\ UNCHANGED <<start, rank, cols, files, snaps, appended>>
    /\ UNCHANGED reportVars
    /\ UNCHANGED runVars

\* The callback when a statement of on_epoch_end may raise.
NextSwagFaults ==
    \/ \E e \in 0..MaxEpoch, w \in Weights : on_epoch_end(e, w)
    \/ \E e \in 0..MaxEpoch, w \in Weights, at \in {24, 25, 26} : on_epoch_end_raises(e, w, at)
    \/ DumpMeanNoTolist
    \/ DumpMean
    \/ DumpDiag
    \/ DumpCols
    \/ DumpOpenFails

-----------------------------------------------------------------------------
(* The command bpnet_modisco_run and modisco_run *)

\* cf.get_tasks(): the tasks of the contribution file
Tasks == << "Oct4", "Sox2" >>

\* The <task> part a wildcard <task>/<head>/<summary> may carry.
WildcardTasks == { "*", "Oct4", "Sox2", "Nanog" }

NoTask == "unbound"

InTasks(t) == \E k \in 1..Len(Tasks) : Tasks[k] = t

\* Lines 241-248: the index of the first wildcard whose task is neither '*' nor
\* a task of the file, 0 when there is none.
RECURSIVE FirstUnknown(_, _)
FirstUnknown(w, i) ==
    IF i > Len(w) THEN 0
    ELSE IF w[i] # "*" /\ ~InTasks(w[i]) THEN i
    ELSE FirstUnknown(w, i + 1)

\* Line 300: `if task == '*':`, with wc_task the task of the wildcard at hand and
\* t the value the variable `task` holds at that point.
ExpandsAll(wc_task, t) == t = "*"

\* Lines 298-306: the loop over the wildcards from index i on; t is the value
\* of `task` on entry, acc the task_names so far.  The inner `for task in
\* use_tasks` leaves `task` at the last element of use_tasks.
RECURSIVE ExpandFrom(_, _, _, _)
ExpandFrom(w, i, t, acc) ==
    IF i > Len(w) THEN acc
    ELSE LET use_tasks == IF ExpandsAll(w[i], t) THEN Tasks ELSE << w[i] >>
             keys == [k \in 1..Len(use_tasks) |-> << use_tasks[k], i >>]
         IN  ExpandFrom(w, i + 1, use_tasks[Len(use_tasks)], acc \o keys)

RunIdle ==
    /\ rpc = "idle"
    /\ wc = << >>
    /\ hasConfig = FALSE
    /\ reportCfg = "None"
    /\ outs = {}
    /\ workflowRan = FALSE
    /\ task = NoTask
    /\ task_names = << >>
    /\ runErr = "none"

\* bpnet_modisco_run(..., config, contrib_wildcard) up to line 231: the output
\* paths are set up, the config is copied, the kwargs JSON and the gin log are
\* written.
RunSetup(w, cfg, rep) ==
    /\ rpc = "idle"
    /\ wc' = w
    /\ hasConfig' = cfg
    /\ reportCfg' = rep
    /\ outs' = {"modisco-run.kwargs.json", "modisco-run.config.gin"}
                  \cup (IF cfg THEN {"modisco-run.input-config.gin"} ELSE {})
    /\ rpc' = "tasks"
    /\ UNCHANGED <<workflowRan, task, task_names, runErr>>
    /\ UNCHANGED reportVars
    /\ UNCHANGED swagVars

\* Lines 236-250, every wildcard task known: subset_tasks is computed.
RunSubsetTasks ==
    /\ rpc = "tasks"
    /\ FirstUnknown(wc, 1) = 0
    /\ task' = wc[Len(wc)]
    /\ rpc' = "subset"
    /\ UNCHANGED <<wc, hasConfig, reportCfg, outs, workflowRan, task_names, runErr>>
    /\ UNCHANGED reportVars
    /\ UNCHANGED swagVars

\* Lines 246-247: raise ValueError(f"task {task} not found in tasks: {tasks}")
RunTaskNotFound ==
    /\ rpc = "tasks"
    /\ FirstUnknown(wc, 1) # 0
    /\ task' = wc[FirstUnknown(wc, 1)]
    /\ rpc' = "raised"
    /\ runErr' = "task not found"
    /\ UNCHANGED <<wc, hasConfig, reportCfg, outs, workflowRan, task_names>>
    /\ UNCHANGED reportVars
    /\ UNCHANGED swagVars

\* Lines 252-291: the included samples are computed and saved with np.save.
RunSaveSubset ==
    /\ rpc = "subset"
    /\ outs' = outs \cup {"modisco-run.subset-contrib-file.npy"}
    /\ rpc' = "expand"
    /\ UNCHANGED <<wc, hasConfig, reportCfg, workflowRan, task, task_names, runErr>>
    /\ UNCHANGED reportVars
    /\ UNCHANGED swagVars

\* Lines 296-308: the wildcards are expanded into task_names.
RunExpand ==
    /\ rpc = "expand"
    /\ task_names' = ExpandFrom(wc, 1, task, << >>)
    /\ rpc' = "workflow"
    /\ UNCHANGED <<wc, hasConfig, reportCfg, outs, workflowRan, task, runErr>>
    /\ UNCHANGED reportVars
    /\ UNCHANGED swagVars

\* modisco_run, lines 91-101: the workflow runs and modisco.h5 is saved.
RunWorkflow ==
    /\ rpc = "workflow"
    /\ workflowRan' = TRUE
    /\ outs' = outs \cup {"modisco.h5"}
    /\ rpc' = "report"
    /\ UNCHANGED <<wc, hasConfig, reportCfg, task, task_names, runErr>>
    /\ UNCHANGED reportVars
    /\ UNCHANGED swagVars

\* modisco_run, lines 103-107: raise ValueError(f"Report file {report} doesn't exist")
RunReportMissing ==
    /\ rpc = "report"
    /\ reportCfg = "missing"
    /\ rpc' = "raised"
    /\ runErr' = "report not found"
    /\ UNCHANGED <<wc, hasConfig, reportCfg, outs, workflowRan, task, task_names>>
    /\ UNCHANGED reportVars
    /\ UNCHANGED swagVars

\* modisco_run, lines 103-114: no report, or the report is rendered.
RunReport ==
    /\ rpc = "report"
    /\ reportCfg # "missing"
    /\ outs' = outs \cup (IF reportCfg = "exists" THEN {"report.ipynb"} ELSE {})
    /\ rpc' = "done"
    /\ UNCHANGED <<wc, hasConfig, reportCfg, workflowRan, task, task_names, runErr>>
    /\ UNCHANGED reportVars
    /\ UNCHANGED swagVars

\* The contrib_wildcard lists of 1..MaxWildcards wildcards.
WildcardLists == UNION { [1..n -> WildcardTasks] : n \in 1..MaxWildcards }

NextRun ==
    \/ \E w \in WildcardLists, cfg \in BOOLEAN, rep \in {"None", "exists", "missing"} :
           RunSetup(w, cfg, rep)
    \/ RunSubsetTasks
    \/ RunTaskNotFound
    \/ RunSaveSubset
    \/ RunExpand
    \/ RunWorkflow
    \/ RunReportMissing
    \/ RunReport

-----------------------------------------------------------------------------
(* Specifications *)

\* The callback before any call, next to every report state.
SwagIdle ==
    /\ start = 0
    /\ rank = 0
    /\ mean = << >>
    /\ moments = << >>
    /\ cols = << >>
    /\ files = [mean |-> Absent, diag |-> Absent, cols |-> Absent]
    /\ te = "none"
    /\ err = "none"
    /\ lastEpoch = -1
    /\ ncalls = 0
    /\ snaps = << >>
    /\ appended = << >>

\* The report pipeline before any call, next to every callback state.
ReportIdle ==
    /\ markers = {}
    /\ npatterns = 0
    /\ pc = "idle"
    /\ force = FALSE
    /\ scan = FALSE
    /\ idx = 0
    /\ cmd = NoStep
    /\ contribsf = "None"
    /\ touched = FALSE
    /\ entry = {}
    /\ executed = << >>
    /\ written = {}
    /\ failed = NoStep
    /\ prevFailed = NoStep
    /\ prevScan = FALSE
    /\ prevForce = FALSE

InitReport == InitReportVars /\ SwagIdle /\ RunIdle
InitSwag == InitSwagVars /\ ReportIdle /\ RunIdle
InitRun == RunIdle /\ ReportIdle /\ SwagIdle

SpecReport == InitReport /\ [][NextReport]_vars
SpecSwag == InitSwag /\ [][NextSwag]_vars
SpecSwagLong == InitSwag /\ [][NextSwagLong]_vars
SpecSwagFaults == InitSwag /\ [][NextSwagFaults]_vars
SpecRun == InitRun /\ [][NextRun]_vars

Init == InitReport \/ InitSwag \/ InitRun
Next == NextReport \/ NextSwagFaults \/ NextRun
Spec == Init /\ [][Next]_vars

-----------------------------------------------------------------------------
(* Properties of the report pipeline (checked under SpecReport) *)

\* The order of the gated blocks in modisco_report_all, written out.
ExpectedOrder ==
    << "modisco_plot", "modisco_report", "modisco_table",
       "modisco_cluster_patterns", "modisco_enrich_patterns",
       "modisco_centroid_seqlet_matches", "cwm_scan", "modisco2bed" >>

ExpectedEnabled(s) ==
    { "modisco_plot", "modisco_report", "modisco_table", "modisco_cluster_patterns",
      "modisco_enrich_patterns", "modisco2bed" }
    \cup (IF s THEN { "modisco_centroid_seqlet_matches", "cwm_scan" } ELSE {})

\* The enabled steps outside `skip`, in pipeline order.
ExpectedRun(s, skip) ==
    LET keep(x) == x \in ExpectedEnabled(s) /\ x \notin skip
    IN  SelectSeq(ExpectedOrder, keep)

SeqRange(q) == { q[i] : i \in 1..Len(q) }

C2_ForceBypass ==
    (force /\ pc # "idle") =>
        /\ \A c \in AllSteps : ~done(c, markers, force)
        /\ entry \subseteq markers
        /\ (pc = "returned" /\ npatterns >= 1) => executed = ExpectedRun(scan, {})

C2_Witness ==
    /\ pc = "returned"
    /\ force
    /\ scan
    /\ npatterns >= 1
    /\ entry = AllSteps
    /\ markers = AllSteps
    /\ Len(executed) = 8

\* C3 (failure propagation): when a step's work raises, its marker is not written
\* in this invocation, it is the last step called, the invocation ends raised, the
\* markers written earlier remain; and the next non-forced invocation (same
\* scan_instances) calls the failed step first.
C3_FailurePropagation ==
    /\ (pc = "raised" /\ failed # NoStep) =>
           /\ failed \notin written
           /\ executed # << >> /\ executed[Len(executed)] = failed
    /\ failed # NoStep => pc = "raised"
    /\ written \subseteq markers
    /\ (~force /\ prevFailed # NoStep /\ prevScan = scan /\ npatterns >= 1) =>
           /\ executed # << >> => executed[1] = prevFailed
           /\ pc = "returned" => executed # << >>

\* The part of C3 that the code keeps: everything but the resumption after a
\* failed forced invocation.
C3_ExceptAfterForce ==
    /\ (pc = "raised" /\ failed # NoStep) =>
           /\ failed \notin written
           /\ executed # << >> /\ executed[Len(executed)] = failed
    /\ failed # NoStep => pc = "raised"
    /\ written \subseteq markers
    /\ (~force /\ ~prevForce /\ prevFailed # NoStep /\ prevScan = scan /\ npatterns >= 1) =>
           /\ executed # << >> => executed[1] = prevFailed
           /\ pc = "returned" => executed # << >>

\* C4 (idempotent marking): after write() the step is done() for a non-forced
\* tracker; a forced run over a job whose markers are all present keeps the marker
\* set as it was, is never left by a failing write(), and once returned has called
\* write() on every enabled step.
C4_IdempotentMarking ==
    /\ \A c \in written : done(c, markers, FALSE)
    /\ (force /\ pc # "idle" /\ entry = AllSteps) =>
           /\ markers = entry
           /\ pc = "raised" => failed # NoStep
           /\ (pc = "returned" /\ npatterns >= 1) => written = ExpectedEnabled(scan)

C4_Witness ==
    /\ pc = "returned"
    /\ force
    /\ ~scan
    /\ npatterns >= 1
    /\ entry = AllSteps
    /\ markers = AllSteps
    /\ Cardinality(written) = 6

-----------------------------------------------------------------------------
(* Properties of the SWAG callback (checked under SpecSwag) *)

\* Sum over the snapshots q of component i, and of its square.
RECURSIVE SumAt(_, _)
SumAt(q, i) == IF q = << >> THEN 0 ELSE q[1][i] + SumAt(Tail(q), i)

RECURSIVE SumSqAt(_, _)
SumSqAt(q, i) == IF q = << >> THEN 0 ELSE q[1][i] * q[1][i] + SumSqAt(Tail(q), i)

\* on_epoch_end has been called once per epoch for the epochs 0..lastEpoch.
Consecutive == ncalls = lastEpoch + 1

InitialState == [i \in 1..2000 |-> [t |-> "float", n |-> 0, d |-> 1]]

\* C5 (warmup no-op): a call on_epoch_end(epoch) with epoch < start leaves mean,
\* moments, cols and the files as they were.
C5_WarmupNoOp ==
    [][ (ncalls' = ncalls + 1 /\ lastEpoch' < start) =>
            /\ mean' = mean
            /\ moments' = moments
            /\ cols' = cols
            /\ files' = files ]_vars

C5_Witness ==
    /\ start = 2
    /\ ncalls = 2
    /\ lastEpoch = 1
    /\ mean = InitialState
    /\ moments = InitialState
    /\ cols = << >>

\* C6 (incremental mean): driven once per epoch from epoch 0, after the call for
\* an epoch e >= start every entry of mean is the arithmetic mean of the
\* e - start + 1 snapshots of the epochs start..e.
C6_IncrementalMean ==
    (Consecutive /\ lastEpoch >= start) =>
        /\ Len(snaps) = lastEpoch - start + 1
        /\ Len(mean) = Len(snaps[1])
        /\ \A i \in 1..Len(mean) :
               mean[i].n * Len(snaps) = SumAt(snaps, i) * mean[i].d

C6_Witness ==
    /\ start = 0
    /\ ncalls = 3
    /\ snaps = << <<1>>, <<3>>, <<5>> >>
    /\ mean = << [t |-> "ndarray", n |-> 3, d |-> 1] >>

\* C7 (diagonal variance): under the same driving every entry of moments is the
\* arithmetic mean of the squared snapshots, and the diagonal on_train_end writes
\* is moments - mean^2, the population variance of the snapshots.
C7_DiagonalVariance ==
    /\ (Consecutive /\ lastEpoch >= start) =>
           /\ Len(moments) = Len(snaps[1])
           /\ \A i \in 1..Len(moments) :
                  moments[i].n * Len(snaps) = SumSqAt(snaps, i) * moments[i].d
    /\ files.diag # Absent =>
           /\ Len(files.diag[1]) = Len(moments)
           /\ \A i \in 1..Len(files.diag[1]) :
                  files.diag[1][i].n * moments[i].d * mean[i].d * mean[i].d =
                      (moments[i].n * mean[i].d * mean[i].d
                           - mean[i].n * mean[i].n * moments[i].d) * files.diag[1][i].d
    /\ (files.diag # Absent /\ Consecutive) =>
           \A i \in 1..Len(files.diag[1]) :
               files.diag[1][i].n * Len(snaps) * Len(snaps) =
                   (Len(snaps) * SumSqAt(snaps, i) - SumAt(snaps, i) * SumAt(snaps, i))
                       * files.diag[1][i].d

C7_Witness ==
    /\ start = 0
    /\ ncalls = 3
    /\ snaps = << <<1>>, <<3>>, <<5>> >>
    /\ moments = << [t |-> "ndarray", n |-> 35, d |-> 3] >>
    /\ files.diag = << << [n |-> 8, d |-> 3] >> >>

\* C8 (bounded deviation buffer): cols never holds more than rank entries, and
\* after k accumulating epochs it holds the min(k, rank) most recently appended
\* deviation snapshots in insertion order.
C8_BoundedBuffer ==
    /\ Len(cols) <= rank
    /\ Len(appended) = Len(snaps)
    /\ Len(cols) = (IF Len(appended) < rank THEN Len(appended) ELSE rank)
    /\ \A k \in 1..Len(cols) : cols[k] = appended[Len(appended) - Len(cols) + k]

C8_Witness ==
    /\ rank = 2
    /\ Len(appended) = 5
    /\ Len(cols) = 2
    /\ cols[1] = appended[4]
    /\ cols[2] = appended[5]
    /\ cols[1] # cols[2]
    /\ appended[3] # appended[4]

\* C9 (on_train_end serializes in every state): on_train_end is left by an
\* exception only when a file cannot be opened, and when it returns the three
\* files hold mean, the diagonal and cols.
C9_SerializesAlways ==
    /\ te = "raised" => err = "IOFailure"
    /\ te = "done" =>
           /\ files.mean = << [i \in 1..Len(mean) |-> [n |-> mean[i].n, d |-> mean[i].d]] >>
           /\ files.diag # Absent
           /\ files.cols # Absent /\ Len(files.cols[1]) = Len(cols)

\* C10 (all-or-nothing output): when on_train_end is left by an exception none of
\* the three files has been written by it, and when it returns all three have.
C10_AllOrNothing ==
    /\ te = "raised" =>
           files.mean = Absent /\ files.diag = Absent /\ files.cols = Absent
    /\ te = "done" =>
           files.mean # Absent /\ files.diag # Absent /\ files.cols # Absent

\* C11 (per-epoch atomicity): a call on_epoch_end that raises leaves mean, moments
\* and cols as they were before the call.
C11_EpochAtomicity ==
    [][ te' = "aborted" =>
            /\ mean' = mean
            /\ moments' = moments
            /\ cols' = cols ]_vars

\* C13 (sample weight equals accumulated count): for strictly increasing epochs,
\* skipped epochs included, after an accumulating call epoch - start + 1 is the
\* number of accumulated snapshots and every entry of mean is their arithmetic mean.
C13_WeightIsCount ==
    snaps # << >> =>
        /\ lastEpoch - start + 1 = Len(snaps)
        /\ \A i \in 1..Len(mean) :
               mean[i].n * Len(snaps) = SumAt(snaps, i) * mean[i].d

\* C14 (every component is accumulated): after an accumulating call mean, moments
\* and the appended deviation snapshot have one entry per tensor of the snapshot,
\* and no entry is a placeholder of __init__.
C14_EveryComponent ==
    snaps # << >> =>
        LET x == snaps[Len(snaps)]
        IN  /\ Len(mean) = Len(x)
            /\ Len(moments) = Len(x)
            /\ Len(appended[Len(appended)]) = Len(x)
            /\ \A i \in 1..Len(mean) : mean[i].t = "ndarray" /\ moments[i].t = "ndarray"

\* C15 (deviation centred on the just-updated mean): the entry a call appends is
\* snapshot - mean with the mean that call has just produced, and every other
\* entry of cols is an entry cols held before the call, unchanged.
C15_CentredOnUpdatedMean ==
    [][ /\ Len(appended') = Len(appended) + 1 =>
            LET new == appended'[Len(appended')]
                x == snaps'[Len(snaps')]
            IN  /\ Len(new) = Len(x)
                /\ \A i \in 1..Len(new) :
                       new[i].n * mean'[i].d = (x[i] * mean'[i].d - mean'[i].n) * new[i].d
                /\ \A k \in 1..Len(cols') :
                       cols'[k] = new \/ \E j \in 1..Len(cols) : cols[j] = cols'[k]
        /\ Len(appended') = Len(appended) =>
            \A k \in 1..Len(cols') : \E j \in 1..Len(cols) : cols[j] = cols'[k]
        /\ \A k \in 1..Len(appended) : appended'[k] = appended[k] ]_vars

C15_Witness ==
    /\ start = 0
    /\ snaps = << <<1>>, <<3>> >>
    /\ appended = << << [t |-> "ndarray", n |-> 0, d |-> 1] >>,
                     << [t |-> "ndarray", n |-> 1, d |-> 1] >> >>
    /\ rank = 2
    /\ cols = appended

\* C19 (non-negative diagonal): every entry satisfies moments >= mean^2, and no
\* entry of the diagonal on_train_end writes is negative.
C19_NonNegativeDiagonal ==
    /\ Len(moments) = Len(mean)
    /\ \A i \in 1..Len(moments) :
           moments[i].n * mean[i].d * mean[i].d >= mean[i].n * mean[i].n * moments[i].d
    /\ files.diag # Absent =>
           \A i \in 1..Len(files.diag[1]) : files.diag[1][i].n >= 0 /\ files.diag[1][i].d > 0

C19_Witness ==
    /\ files.diag # Absent
    /\ Len(snaps) = 2
    /\ lastEpoch - start + 1 > Len(snaps)
    /\ snaps[1] # snaps[2]
    /\ files.diag[1][1].n > 0

-----------------------------------------------------------------------------
(* Properties of the report pipeline, continued (checked under SpecReport) *)

\* The steps of modisco_report_all that are handed contribsf=contribsf.
Consumers ==
    { "modisco_plot", "modisco_table", "modisco_enrich_patterns",
      "modisco_centroid_seqlet_matches" }

\* C16 (lazy shared load): the shared ContribFile is loaded up front exactly when
\* one of the steps that is handed it is enabled and pending at entry.
C16_LazySharedLoad ==
    (pc # "idle" /\ npatterns >= 1) =>
        ( contribsf = "loaded" <=>
            \E c \in Consumers : c \in ExpectedEnabled(scan) /\ (force \/ c \notin entry) )

\* C17 (marker matches executed step): cr.write() is reached with the tracker
\* selecting the step whose function has just returned, and the markers created in
\* an invocation belong to steps whose function was called and did not raise.
C17_MarkerMatchesStep ==
    pc # "idle" =>
        /\ pc = "write" => (executed # << >> /\ cmd = executed[Len(executed)])
        /\ written \subseteq SeqRange(executed)
        /\ markers \ entry \subseteq written
        /\ failed \notin written

C17_Witness ==
    /\ pc = "write"
    /\ ~force
    /\ entry = {"modisco_plot"}
    /\ cmd = "modisco_table"
    /\ written = {"modisco_report"}

-----------------------------------------------------------------------------
(* Properties of bpnet_modisco_run (checked under SpecRun) *)

\* C12 (configuration errors abort before any side effect): when the command is
\* left because a wildcard names an unknown task or the report template does not
\* exist, it has written no output and the workflow has not run.
C12_ConfigErrorsFirst ==
    (rpc = "raised" /\ runErr \in {"task not found", "report not found"}) =>
        outs = {} /\ ~workflowRan

\* The keys of the wildcards w[i..], each expanded by its own task.
RECURSIVE ExpectedNames(_, _)
ExpectedNames(w, i) ==
    IF i > Len(w) THEN << >>
    ELSE (IF w[i] = "*"
          THEN << << "Oct4", i >>, << "Sox2", i >> >>
          ELSE << << w[i], i >> >>) \o ExpectedNames(w, i + 1)

\* C18 (wildcard expansion): task_names is the in-order concatenation, per
\* wildcard, of the key of its own task, or of one key per known task when its
\* own task is '*'.
C18_WildcardExpansion ==
    rpc \in {"workflow", "report", "done"} => task_names = ExpectedNames(wc, 1)

=============================================================================
